---- MODULE Spec2Model ----
(***************************************************************************)
(* cryptofeed/standards.py: the translation registry that normalizes the   *)
(* differences between exchanges -- trading pairs, timestamps, data        *)
(* channel names and order options.                                        *)
(*                                                                         *)
(* Representation of Python values                                         *)
(*   - A constant imported from cryptofeed.defines (an exchange id, a      *)
(*     channel, an order option, UNSUPPORTED) is an atom: the string of    *)
(*     its name.  The code only hashes and compares these.                 *)
(*   - A trading pair is a sequence of characters, because the code reads  *)
(*     pairs character by character ('-' in pair, pair[0], pair[1:],       *)
(*     f"f{pair}").                                                        *)
(*   - A value stored in a static table or handed back to the caller is    *)
(*     tagged with its Python type (PyStr, PyInt, PyDict, PyText, PyNum,   *)
(*     PyNone), so that values of different types compare unequal, as in   *)
(*     Python.                                                             *)
(*   - A call ends in Return(v) or Raise(exception).                       *)
(***************************************************************************)
EXTENDS Integers, Sequences, FiniteSets, TLC

(***************************************************************************)
(* cryptofeed.defines, as imported at lines 16-21.                         *)
(***************************************************************************)
BINANCE == "BINANCE"
BINANCE_FUTURES == "BINANCE_FUTURES"
BINANCE_DELIVERY == "BINANCE_DELIVERY"
BINANCE_US == "BINANCE_US"
BITCOINCOM == "BITCOINCOM"
BITFINEX == "BITFINEX"
BITMAX == "BITMAX"
BITMEX == "BITMEX"
BITSTAMP == "BITSTAMP"
BITTREX == "BITTREX"
BLOCKCHAIN == "BLOCKCHAIN"
BYBIT == "BYBIT"
COINBASE == "COINBASE"
COINBENE == "COINBENE"
DERIBIT == "DERIBIT"
EXX == "EXX"
FILL_OR_KILL == "FILL_OR_KILL"
FTX == "FTX"
FTX_US == "FTX_US"
FUNDING == "FUNDING"
GATEIO == "GATEIO"
GEMINI == "GEMINI"
HITBTC == "HITBTC"
HUOBI == "HUOBI"
HUOBI_DM == "HUOBI_DM"
HUOBI_SWAP == "HUOBI_SWAP"
IMMEDIATE_OR_CANCEL == "IMMEDIATE_OR_CANCEL"
KRAKEN == "KRAKEN"
KRAKEN_FUTURES == "KRAKEN_FUTURES"
L2_BOOK == "L2_BOOK"
L3_BOOK == "L3_BOOK"
LIMIT == "LIMIT"
LIQUIDATIONS == "LIQUIDATIONS"
MAKER_OR_CANCEL == "MAKER_OR_CANCEL"
MARKET == "MARKET"
OKCOIN == "OKCOIN"
OKEX == "OKEX"
OPEN_INTEREST == "OPEN_INTEREST"
POLONIEX == "POLONIEX"
PROBIT == "PROBIT"
TICKER == "TICKER"
TRADES == "TRADES"
UNSUPPORTED == "UNSUPPORTED"
UPBIT == "UPBIT"
VOLUME == "VOLUME"
FUTURES_INDEX == "FUTURES_INDEX"

(***************************************************************************)
(* Python values and call outcomes.                                        *)
(***************************************************************************)
PyStr(s) == [type |-> "str", val |-> s]
PyInt(n) == [type |-> "int", val |-> n]
PyDict(d) == [type |-> "dict", val |-> d]
PyText(chars) == [type |-> "text", val |-> chars]
PyNone == [type |-> "NoneType", val |-> "None"]
Return(v) == [kind |-> "return", value |-> v]
Raise(exc) == [kind |-> "raise", exc |-> exc]

(***************************************************************************)
(* The static tables, lines 85-283.                                        *)
(***************************************************************************)
_feed_to_exchange_map ==
    L2_BOOK :> (BITFINEX :> PyStr("book-P0-F0-100") @@ POLONIEX :> PyStr(L2_BOOK)
           @@ HITBTC :> PyStr("subscribeOrderbook") @@ COINBASE :> PyStr("level2")
           @@ BITMEX :> PyStr("orderBookL2") @@ BITSTAMP :> PyStr("diff_order_book")
           @@ KRAKEN :> PyStr("book") @@ KRAKEN_FUTURES :> PyStr("book")
           @@ BINANCE :> PyStr("depth@100ms") @@ BINANCE_US :> PyStr("depth@100ms")
           @@ BINANCE_FUTURES :> PyStr("depth@100ms") @@ BINANCE_DELIVERY :> PyStr("depth@100ms")
           @@ BLOCKCHAIN :> PyStr("l2") @@ EXX :> PyStr("ENTRUST_ADD")
           @@ HUOBI :> PyStr("depth.step0") @@ HUOBI_DM :> PyStr("depth.step0")
           @@ HUOBI_SWAP :> PyStr("depth.step0") @@ OKCOIN :> PyStr("spot/depth_l2_tbt")
           @@ OKEX :> PyStr("{}/depth_l2_tbt") @@ COINBENE :> PyStr(L2_BOOK)
           @@ DERIBIT :> PyStr("book") @@ BYBIT :> PyStr("orderBookL2_25")
           @@ FTX :> PyStr("orderbook") @@ FTX_US :> PyStr("orderbook")
           @@ GEMINI :> PyStr(L2_BOOK) @@ BITTREX :> PyStr("SubscribeToExchangeDeltas")
           @@ BITCOINCOM :> PyStr("subscribeOrderbook") @@ BITMAX :> PyStr(L2_BOOK)
           @@ UPBIT :> PyStr(L2_BOOK) @@ GATEIO :> PyStr("depth.subscribe")
           @@ PROBIT :> PyStr("order_books"))
    @@
    L3_BOOK :> (BITFINEX :> PyStr("book-R0-F0-100") @@ BITSTAMP :> PyStr("detail_order_book")
           @@ HITBTC :> PyStr(UNSUPPORTED) @@ COINBASE :> PyStr("full")
           @@ BITMEX :> PyStr(UNSUPPORTED) @@ POLONIEX :> PyStr(UNSUPPORTED)
           @@ KRAKEN :> PyStr(UNSUPPORTED) @@ KRAKEN_FUTURES :> PyStr(UNSUPPORTED)
           @@ BINANCE :> PyStr(UNSUPPORTED) @@ BINANCE_US :> PyStr(UNSUPPORTED)
           @@ BINANCE_FUTURES :> PyStr(UNSUPPORTED) @@ BINANCE_DELIVERY :> PyStr(UNSUPPORTED)
           @@ BLOCKCHAIN :> PyStr("l3") @@ EXX :> PyStr(UNSUPPORTED)
           @@ HUOBI :> PyStr(UNSUPPORTED) @@ HUOBI_DM :> PyStr(UNSUPPORTED)
           @@ OKCOIN :> PyStr(UNSUPPORTED) @@ OKEX :> PyStr(UNSUPPORTED)
           @@ BYBIT :> PyStr(UNSUPPORTED) @@ FTX :> PyStr(UNSUPPORTED)
           @@ FTX_US :> PyStr(UNSUPPORTED) @@ GEMINI :> PyStr(UNSUPPORTED)
           @@ BITCOINCOM :> PyStr(UNSUPPORTED) @@ BITMAX :> PyStr(UNSUPPORTED)
           @@ UPBIT :> PyStr(UNSUPPORTED) @@ PROBIT :> PyStr(UNSUPPORTED))
    @@
    TRADES :> (POLONIEX :> PyStr(TRADES) @@ HITBTC :> PyStr("subscribeTrades")
           @@ BITSTAMP :> PyStr("live_trades") @@ BITFINEX :> PyStr("trades")
           @@ COINBASE :> PyStr("matches") @@ BITMEX :> PyStr("trade") @@ KRAKEN :> PyStr("trade")
           @@ KRAKEN_FUTURES :> PyStr("trade") @@ BINANCE :> PyStr("aggTrade")
           @@ BINANCE_US :> PyStr("aggTrade") @@ BINANCE_FUTURES :> PyStr("aggTrade")
           @@ BINANCE_DELIVERY :> PyStr("aggTrade") @@ BLOCKCHAIN :> PyStr("trades")
           @@ EXX :> PyStr("TRADE") @@ HUOBI :> PyStr("trade.detail")
           @@ HUOBI_DM :> PyStr("trade.detail") @@ HUOBI_SWAP :> PyStr("trade.detail")
           @@ OKCOIN :> PyStr("spot/trade") @@ OKEX :> PyStr("{}/trade")
           @@ COINBENE :> PyStr(TRADES) @@ DERIBIT :> PyStr("trades") @@ BYBIT :> PyStr("trade")
           @@ FTX :> PyStr("trades") @@ FTX_US :> PyStr("trades") @@ GEMINI :> PyStr(TRADES)
           @@ BITTREX :> PyStr(TRADES) @@ BITCOINCOM :> PyStr("subscribeTrades")
           @@ BITMAX :> PyStr(TRADES) @@ UPBIT :> PyStr(TRADES)
           @@ GATEIO :> PyStr("trades.subscribe") @@ PROBIT :> PyStr("recent_trades"))
    @@
    TICKER :> (POLONIEX :> PyInt(1002) @@ HITBTC :> PyStr("subscribeTicker")
           @@ BITFINEX :> PyStr("ticker") @@ BITSTAMP :> PyStr(UNSUPPORTED)
           @@ COINBASE :> PyStr("ticker") @@ BITMEX :> PyStr("quote") @@ KRAKEN :> PyStr(TICKER)
           @@ KRAKEN_FUTURES :> PyStr("ticker_lite") @@ BINANCE :> PyStr("ticker")
           @@ BINANCE_US :> PyStr("ticker") @@ BINANCE_FUTURES :> PyStr("ticker")
           @@ BINANCE_DELIVERY :> PyStr("ticker") @@ BLOCKCHAIN :> PyStr(UNSUPPORTED)
           @@ HUOBI :> PyStr(UNSUPPORTED) @@ HUOBI_DM :> PyStr(UNSUPPORTED)
           @@ OKCOIN :> PyStr("{}/ticker") @@ OKEX :> PyStr("{}/ticker")
           @@ COINBENE :> PyStr(TICKER) @@ DERIBIT :> PyStr("ticker")
           @@ BYBIT :> PyStr(UNSUPPORTED) @@ FTX :> PyStr("ticker") @@ FTX_US :> PyStr("ticker")
           @@ GEMINI :> PyStr(UNSUPPORTED) @@ BITTREX :> PyStr("SubscribeToSummaryDeltas")
           @@ BITCOINCOM :> PyStr("subscribeTicker") @@ BITMAX :> PyStr(UNSUPPORTED)
           @@ UPBIT :> PyStr(UNSUPPORTED) @@ GATEIO :> PyStr(UNSUPPORTED)
           @@ PROBIT :> PyStr(UNSUPPORTED))
    @@
    VOLUME :> (POLONIEX :> PyInt(1003))
    @@
    FUNDING :> (BITMEX :> PyStr("funding") @@ BITFINEX :> PyStr("trades")
           @@ BINANCE_FUTURES :> PyStr("markPrice") @@ BINANCE_DELIVERY :> PyStr("markPrice")
           @@ KRAKEN_FUTURES :> PyStr("ticker") @@ DERIBIT :> PyStr("ticker")
           @@ OKEX :> PyStr("{}/funding_rate") @@ FTX :> PyStr("funding")
           @@ HUOBI_SWAP :> PyStr("funding"))
    @@
    OPEN_INTEREST :> (OKEX :> PyStr("{}/ticker") @@ BITMEX :> PyStr("instrument")
           @@ KRAKEN_FUTURES :> PyStr("ticker") @@ DERIBIT :> PyStr("ticker")
           @@ FTX :> PyStr("open_interest") @@ BINANCE_FUTURES :> PyStr("open_interest")
           @@ BINANCE_DELIVERY :> PyStr("open_interest")
           @@ BYBIT :> PyStr("instrument_info.100ms"))
    @@
    LIQUIDATIONS :> (BITMEX :> PyStr("liquidation") @@ BINANCE_FUTURES :> PyStr("forceOrder")
           @@ BINANCE_DELIVERY :> PyStr("forceOrder") @@ FTX :> PyStr("trades")
           @@ DERIBIT :> PyStr("trades") @@ OKEX :> PyStr(LIQUIDATIONS))
    @@
    FUTURES_INDEX :> (BYBIT :> PyStr("instrument_info.100ms"))

_exchange_options ==
    LIMIT :> (KRAKEN :> PyStr("limit") @@ GEMINI :> PyStr("exchange limit")
           @@ POLONIEX :> PyStr("limit") @@ COINBASE :> PyStr("limit")
           @@ BLOCKCHAIN :> PyStr("limit"))
    @@
    MARKET :> (KRAKEN :> PyStr("market") @@ GEMINI :> PyStr(UNSUPPORTED)
           @@ POLONIEX :> PyStr(UNSUPPORTED) @@ COINBASE :> PyStr("market")
           @@ BLOCKCHAIN :> PyStr("market"))
    @@
    FILL_OR_KILL :> (GEMINI :> PyStr("fill-or-kill") @@ POLONIEX :> PyStr("fillOrKill")
           @@ COINBASE :> PyDict([time_in_force |-> PyStr("FOK")]) @@ KRAKEN :> PyStr(UNSUPPORTED)
           @@ BLOCKCHAIN :> PyStr("FOK"))
    @@
    IMMEDIATE_OR_CANCEL :> (GEMINI :> PyStr("immediate-or-cancel") @@ POLONIEX :> PyStr("immediateOrCancel")
           @@ COINBASE :> PyDict([time_in_force |-> PyStr("IOC")]) @@ KRAKEN :> PyStr(UNSUPPORTED)
           @@ BLOCKCHAIN :> PyStr("IOC"))
    @@
    MAKER_OR_CANCEL :> (GEMINI :> PyStr("maker-or-cancel") @@ POLONIEX :> PyStr("postOnly")
           @@ COINBASE :> PyDict([post_only |-> PyInt(1)]) @@ KRAKEN :> PyStr("post"))


(***************************************************************************)
(* Bounds and the inputs the operations are called with.                   *)
(***************************************************************************)
\* The most pairs the Pair Provider returns for one exchange.
MaxPairs == 2

\* The most pairs per exchange when two warm-ups run concurrently.
MaxParPairs == 1

Exchanges ==
    { BINANCE, BINANCE_FUTURES, BINANCE_DELIVERY, BINANCE_US, BITCOINCOM, BITFINEX,
      BITMAX, BITMEX, BITSTAMP, BITTREX, BLOCKCHAIN, BYBIT, COINBASE, COINBENE,
      DERIBIT, EXX, FTX, FTX_US, GATEIO, GEMINI, HITBTC, HUOBI, HUOBI_DM,
      HUOBI_SWAP, KRAKEN, KRAKEN_FUTURES, OKCOIN, OKEX, POLONIEX, PROBIT, UPBIT }

\* An exchange id that cryptofeed.defines does not know.
UnknownExchange == "UNKNOWN_EXCHANGE"

Channels ==
    { L2_BOOK, L3_BOOK, TRADES, TICKER, VOLUME, FUNDING, OPEN_INTEREST,
      LIQUIDATIONS, FUTURES_INDEX }

\* An order option that cryptofeed.defines does not know.
UnknownOption == "UNKNOWN_OPTION"

Options == { LIMIT, MARKET, FILL_OR_KILL, IMMEDIATE_OR_CANCEL, MAKER_OR_CANCEL }

\* The exchanges the registry is exercised with: the one with funding
\* symbols, the one with symbol subscriptions, and an exempt one.
RegistryExchanges == { BITFINEX, POLONIEX, BITMEX }

\* The exchanges toExchange is asked about: the above and the other exempt ones.
ToExchangeTargets == RegistryExchanges \cup { DERIBIT, KRAKEN_FUTURES }

\* The exchanges the Pair Provider is queried for.
ProviderExchanges == { BITFINEX, POLONIEX }

\* The characters pairs are written with.
Alphabet == { "B", "E", "U", "-", "f" }

\* Standard symbols: two with the separator, one bare currency.
StdSymbols == { <<"B", "-", "U">>, <<"E", "-", "U">>, <<"B">> }

\* Exchange-native symbols; one of them starts with the funding marker.
NativeSymbols == { <<"B", "U">>, <<"f", "B">> }

\* What toStandard is asked about: the natives, a bare marker, the empty string.
NativeQueries == NativeSymbols \cup { <<"f">>, <<>> }

\* A dict in iteration order: a sequence of <<key, value>> with distinct keys.
\* Within one exchange a native symbol names one instrument.
IsPairMapping(m) ==
    \A i, j \in DOMAIN m : i # j => (m[i][1] # m[j][1] /\ m[i][2] # m[j][2])

RECURSIVE SeqsUpTo(_, _)
SeqsUpTo(S, n) ==
    IF n = 0 THEN { <<>> }
    ELSE LET shorter == SeqsUpTo(S, n - 1)
         IN shorter \cup { Append(m, x) : m \in shorter, x \in S }

PairMappings(n) ==
    { m \in SeqsUpTo(StdSymbols \X NativeSymbols, n) : IsPairMapping(m) }

\* Instrument metadata is opaque to this layer.
Metadata == [tick_size |-> "opaque"]

ExchangeInfos == { <<>>, (BITFINEX :> Metadata) }

(***************************************************************************)
(* State.                                                                  *)
(***************************************************************************)
VARIABLES
    _std_trading_pairs,  \* line 27: standard -> exchange -> native
    _exchange_to_std,    \* line 28: native -> standard
    provider,            \* what gen_pairs(exchange) returns, per exchange
    _exchange_info,      \* cryptofeed.pairs._exchange_info
    call,                \* the last call made: its name and arguments
    ret,                 \* how the last call ended
    logged,              \* whether the last call wrote a LOG.error record
    warmed,              \* the exchanges load_exchange_pair_mapping was called for
    thr                  \* the threads running load_exchange_pair_mapping concurrently

vars ==
    << _std_trading_pairs, _exchange_to_std, provider, _exchange_info,
       call, ret, logged, warmed, thr >>

(***************************************************************************)
(* Symbol registry, lines 27-71.                                           *)
(***************************************************************************)
\* cryptofeed.pairs.gen_pairs: pure, re-queryable, exchange-scoped.
gen_pairs(prov, exchange) == prov[exchange]

\* line 36
exchange_to_std_store(bwd, exch, std) == (exch :> std) @@ bwd

\* line 38 gone wrong: the row is replaced, not updated
std_trading_pairs_update_replace(fwd, std, exchange, exch) ==
    [fwd EXCEPT ![std] = (exchange :> exch)]

\* line 38
std_trading_pairs_update(fwd, std, exchange, exch) ==
    [fwd EXCEPT ![std] = (exchange :> exch) @@ @]

\* line 40 gone wrong: the row is created without its entry
std_trading_pairs_create_empty(fwd, std, exchange, exch) ==
    (std :> <<>>) @@ fwd

\* line 40 gone wrong: the map is replaced by the new row
std_trading_pairs_create_reset(fwd, std, exchange, exch) ==
    (std :> (exchange :> exch))

\* line 40
std_trading_pairs_create(fwd, std, exchange, exch) ==
    (std :> (exchange :> exch)) @@ fwd

\* lines 36-40: one iteration of the loop
load_pair(reg, exchange, std, exch) ==
    [ bwd |-> exchange_to_std_store(reg.bwd, exch, std),
      fwd |-> IF std \in DOMAIN reg.fwd
              THEN std_trading_pairs_update(reg.fwd, std, exchange, exch)
              ELSE std_trading_pairs_create(reg.fwd, std, exchange, exch) ]

RECURSIVE load_pairs(_, _, _)
\* line 35: for std, exch in mapping.items()
load_pairs(reg, exchange, mapping) ==
    IF mapping = <<>> THEN reg
    ELSE load_pairs(load_pair(reg, exchange, Head(mapping)[1], Head(mapping)[2]),
                    exchange, Tail(mapping))

ExemptExchanges == { BITMEX, DERIBIT, KRAKEN_FUTURES }

load_exchange_pair_mapping(reg, prov, exchange) ==
    IF exchange \in ExemptExchanges THEN reg
    ELSE load_pairs(reg, exchange, gen_pairs(prov, exchange))

get_exchange_info(prov, info, exchange) ==
    [ type |-> "tuple",
      val |-> << gen_pairs(prov, exchange),
                 IF exchange \in DOMAIN info THEN info[exchange] ELSE <<>> >> ]

\* '-' in pair
HasSeparator(pair) == \E i \in DOMAIN pair : pair[i] = "-"

\* line 60 gone wrong: the funding prefix is given on any exchange
pair_std_to_exchange_anyfunding(fwd, pair, exchange) ==
    IF exchange \in ExemptExchanges THEN Return(PyText(pair))
    ELSE IF pair \in DOMAIN fwd
    THEN IF exchange \in DOMAIN fwd[pair]
         THEN Return(PyText(fwd[pair][exchange]))
         ELSE Raise("UnsupportedTradingPair")
    ELSE IF ~HasSeparator(pair)
         THEN Return(PyText(<<"f">> \o pair))
         ELSE Raise("UnsupportedTradingPair")

pair_std_to_exchange(fwd, pair, exchange) ==
    IF exchange \in ExemptExchanges THEN Return(PyText(pair))
    ELSE IF pair \in DOMAIN fwd
    THEN IF exchange \in DOMAIN fwd[pair]
         THEN Return(PyText(fwd[pair][exchange]))
         ELSE Raise("UnsupportedTradingPair")
    ELSE IF exchange = BITFINEX /\ ~HasSeparator(pair)
         THEN Return(PyText(<<"f">> \o pair))
         ELSE Raise("UnsupportedTradingPair")

pair_exchange_to_std(bwd, pair) ==
    IF pair \in DOMAIN bwd THEN Return(PyText(bwd[pair]))
    ELSE IF pair = <<>> THEN Raise("IndexError")
    ELSE IF pair[1] = "f" THEN Return(PyText(Tail(pair)))
    ELSE Return(PyNone)

(***************************************************************************)
(* Timestamps, lines 74-82.                                                *)
(*                                                                         *)
(* A number is a decimal m * 10^e with m not a multiple of ten (or zero):  *)
(* the divisors of the code are powers of ten, so a division moves the     *)
(* exponent and is exact.  1_600_000_000_000 is PyNum(16, 11).             *)
(***************************************************************************)
PyNum(m, e) == [type |-> "number", val |-> <<m, e>>]

\* pandas.Timestamp(ts).timestamp(): the generic parser, not part of this layer.
pd_Timestamp_timestamp(ts) == [type |-> "pd.Timestamp.timestamp", val |-> ts]

RECURSIVE true_divide(_, _)
\* ts / d for d a power of ten
true_divide(ts, d) ==
    IF ts.type # "number" THEN Raise("TypeError")
    ELSE IF d = 1 THEN Return(ts)
    ELSE IF ts.val[1] = 0 THEN Return(ts)
    ELSE true_divide(PyNum(ts.val[1], ts.val[2] - 1), d \div 10)

TimestampParsed ==
    { BITMEX, COINBASE, HITBTC, OKCOIN, OKEX, FTX, FTX_US, BITCOINCOM, BLOCKCHAIN, PROBIT }

TimestampMillis ==
    { HUOBI, HUOBI_DM, HUOBI_SWAP, BITFINEX, BYBIT, COINBENE, DERIBIT, BINANCE,
      BINANCE_US, BINANCE_FUTURES, BINANCE_DELIVERY, GEMINI, BITTREX, BITMAX,
      KRAKEN_FUTURES, UPBIT }

TimestampMicros == { BITSTAMP }

\* lines 79 and 81 gone wrong: the two divisors are swapped
timestamp_normalize_swapped(exchange, ts) ==
    IF exchange \in TimestampParsed THEN Return(pd_Timestamp_timestamp(ts))
    ELSE IF exchange \in TimestampMillis THEN true_divide(ts, 1000000)
    ELSE IF exchange \in TimestampMicros THEN true_divide(ts, 1000)
    ELSE Return(ts)

timestamp_normalize(exchange, ts) ==
    IF exchange \in TimestampParsed THEN Return(pd_Timestamp_timestamp(ts))
    ELSE IF exchange \in TimestampMillis THEN true_divide(ts, 1000)
    ELSE IF exchange \in TimestampMicros THEN true_divide(ts, 1000000)
    ELSE Return(ts)

\* Raw timestamps: 0, 1_600_000_000_000, 1_600_000_001_000, 1500, 7,
\* and an ISO-8601 string.
Timestamps ==
    { PyNum(0, 0), PyNum(16, 11), PyNum(1600000001, 3), PyNum(15, 2), PyNum(7, 0),
      PyStr("2020-09-13T12:26:40Z") }

(***************************************************************************)
(* Order options, lines 286-295.                                           *)
(***************************************************************************)
\* lines 293-294 gone wrong: the sentinel is handed back
normalize_trading_options_nosentinel(exchange, option) ==
    IF option \notin DOMAIN _exchange_options THEN Raise("UnsupportedTradingOption")
    ELSE IF exchange \notin DOMAIN _exchange_options[option]
    THEN Raise("UnsupportedTradingOption")
    ELSE Return(_exchange_options[option][exchange])

normalize_trading_options(exchange, option) ==
    IF option \notin DOMAIN _exchange_options THEN Raise("UnsupportedTradingOption")
    ELSE IF exchange \notin DOMAIN _exchange_options[option]
    THEN Raise("UnsupportedTradingOption")
    ELSE LET r == _exchange_options[option][exchange]
         IN IF r = PyStr(UNSUPPORTED) THEN Raise("UnsupportedTradingOption")
            ELSE Return(r)

(***************************************************************************)
(* Channels, lines 298-315.  A call yields its outcome and whether it      *)
(* logged.                                                                 *)
(***************************************************************************)
\* A feed that is a trading pair, not a constant of cryptofeed.defines.
IsPair(feed) == feed \in Seq(Alphabet)

\* feed in _feed_to_exchange_map
InFeedMap(feed) == ~IsPair(feed) /\ feed \in DOMAIN _feed_to_exchange_map

\* lines 299-303 gone wrong: silent suppresses the failure with the log record
raise_error_swallowed(silent) ==
    IF silent THEN [out |-> Return(PyNone), logged |-> FALSE]
    ELSE [out |-> Raise("UnsupportedDataFeed"), logged |-> TRUE]

\* lines 299-303
raise_error(silent) == [out |-> Raise("UnsupportedDataFeed"), logged |-> ~silent]

feed_to_exchange(fwd, exchange, feed, silent) ==
    IF exchange = POLONIEX /\ ~InFeedMap(feed)
    THEN [out |-> pair_std_to_exchange(fwd, feed, POLONIEX), logged |-> FALSE]
    ELSE IF ~InFeedMap(feed) THEN raise_error(silent)
    ELSE IF exchange \notin DOMAIN _feed_to_exchange_map[feed] THEN raise_error(silent)
    ELSE LET r == _feed_to_exchange_map[feed][exchange]
         IN IF r = PyStr(UNSUPPORTED) THEN raise_error(silent)
            ELSE [out |-> Return(r), logged |-> FALSE]

(***************************************************************************)
(* The operations, one action per call.                                    *)
(***************************************************************************)
Registry == [fwd |-> _std_trading_pairs, bwd |-> _exchange_to_std]

EmptyRegistry == [fwd |-> <<>>, bwd |-> <<>>]

NoCall == [op |-> "none"]

Init ==
    /\ _std_trading_pairs = <<>>
    /\ _exchange_to_std = <<>>
    /\ provider \in [ProviderExchanges -> PairMappings(MaxPairs)]
    /\ _exchange_info \in ExchangeInfos
    /\ call = NoCall
    /\ ret = Return(PyNone)
    /\ logged = FALSE
    /\ warmed = {}
    /\ thr = <<>>

\* warm(exchange), on exchanges Es
Warm(Es) ==
    \E exchange \in Es :
        LET reg == load_exchange_pair_mapping(Registry, provider, exchange)
        IN /\ _std_trading_pairs' = reg.fwd
           /\ _exchange_to_std' = reg.bwd
           /\ call' = [ op |-> "load_exchange_pair_mapping", exchange |-> exchange,
                        again |-> (call.op = "load_exchange_pair_mapping"
                                   /\ call.exchange = exchange) ]
           /\ ret' = Return(PyNone)
           /\ logged' = FALSE
           /\ warmed' = warmed \cup {exchange}
           /\ UNCHANGED << provider, _exchange_info, thr >>

\* info(exchange)
Info ==
    \E exchange \in ProviderExchanges :
        /\ call' = [op |-> "get_exchange_info", exchange |-> exchange]
        /\ ret' = Return(get_exchange_info(provider, _exchange_info, exchange))
        /\ logged' = FALSE
        /\ UNCHANGED << _std_trading_pairs, _exchange_to_std, provider,
                        _exchange_info, warmed, thr >>

\* toExchange(standard, exchange)
ToExchange ==
    \E pair \in StdSymbols, exchange \in ToExchangeTargets :
        /\ call' = [op |-> "pair_std_to_exchange", pair |-> pair, exchange |-> exchange]
        /\ ret' = pair_std_to_exchange(_std_trading_pairs, pair, exchange)
        /\ logged' = FALSE
        /\ UNCHANGED << _std_trading_pairs, _exchange_to_std, provider,
                        _exchange_info, warmed, thr >>

\* toStandard(native)
ToStandard ==
    \E pair \in NativeQueries :
        /\ call' = [op |-> "pair_exchange_to_std", pair |-> pair]
        /\ ret' = pair_exchange_to_std(_exchange_to_std, pair)
        /\ logged' = FALSE
        /\ UNCHANGED << _std_trading_pairs, _exchange_to_std, provider,
                        _exchange_info, warmed, thr >>

FeedToExchange(exchange, feed, silent) ==
    LET r == feed_to_exchange(_std_trading_pairs, exchange, feed, silent)
    IN /\ call' = [ op |-> "feed_to_exchange", exchange |-> exchange,
                    feed |-> feed, silent |-> silent ]
       /\ ret' = r.out
       /\ logged' = r.logged
       /\ UNCHANGED << _std_trading_pairs, _exchange_to_std, provider,
                       _exchange_info, warmed, thr >>

\* translate(channel, exchange, silent), on exchanges Es and channels Cs:
\* the channel is a channel constant or, for a symbol subscription, a pair
Translate(Es, Cs) ==
    \E exchange \in Es, silent \in BOOLEAN :
        \/ \E feed \in Cs : FeedToExchange(exchange, feed, silent)
        \/ \E feed \in StdSymbols : FeedToExchange(exchange, feed, silent)

\* normalize(exchange, rawTimestamp), on exchanges Es and timestamps Ts
NormalizeTimestamp(Es, Ts) ==
    \E exchange \in Es, ts \in Ts :
        /\ call' = [op |-> "timestamp_normalize", exchange |-> exchange, ts |-> ts]
        /\ ret' = timestamp_normalize(exchange, ts)
        /\ logged' = FALSE
        /\ UNCHANGED << _std_trading_pairs, _exchange_to_std, provider,
                        _exchange_info, warmed, thr >>

\* normalize(exchange, option), on exchanges Es and options Os
NormalizeOption(Es, Os) ==
    \E exchange \in Es, option \in Os :
        /\ call' = [ op |-> "normalize_trading_options", exchange |-> exchange,
                     option |-> option ]
        /\ ret' = normalize_trading_options(exchange, option)
        /\ logged' = FALSE
        /\ UNCHANGED << _std_trading_pairs, _exchange_to_std, provider,
                        _exchange_info, warmed, thr >>

(***************************************************************************)
(* Spec: any sequence of calls against the registry, for every Pair        *)
(* Provider output within the bounds.                                      *)
(***************************************************************************)
Next ==
    \/ Warm(RegistryExchanges)
    \/ Info
    \/ ToExchange
    \/ ToStandard
    \/ Translate({POLONIEX, BITMEX}, {L3_BOOK})
    \/ NormalizeTimestamp(RegistryExchanges, {PyNum(16, 11)})
    \/ NormalizeOption(RegistryExchanges, {LIMIT, MARKET})

Spec == Init /\ [][Next]_vars

(***************************************************************************)
(* SpecTables: the static tables over every exchange, channel, option and  *)
(* timestamp, with one Pair Provider output for the symbol subscriptions.  *)
(***************************************************************************)
SampleProvider ==
    (BITFINEX :> << << <<"B", "-", "U">>, <<"B", "U">> >> >>)
    @@ (POLONIEX :> << << <<"B", "-", "U">>, <<"f", "B">> >> >>)

InitTables ==
    /\ _std_trading_pairs = <<>>
    /\ _exchange_to_std = <<>>
    /\ provider = SampleProvider
    /\ _exchange_info = <<>>
    /\ call = NoCall
    /\ ret = Return(PyNone)
    /\ logged = FALSE
    /\ warmed = {}
    /\ thr = <<>>

AllExchanges == Exchanges \cup {UnknownExchange}

NextTables ==
    \/ Warm({POLONIEX})
    \/ Translate(AllExchanges, Channels)
    \/ NormalizeTimestamp(AllExchanges, Timestamps)
    \/ NormalizeOption(AllExchanges, Options \cup {UnknownOption})

SpecTables == InitTables /\ [][NextTables]_vars

(***************************************************************************)
(* SpecPar: load_exchange_pair_mapping running in two threads, one per     *)
(* exchange, on an empty registry.  A thread can be preempted between any  *)
(* two dictionary operations; the steps are the dictionary operations of   *)
(* lines 36, 37, 38 and 40.                                                *)
(***************************************************************************)
InitPar ==
    /\ _std_trading_pairs = <<>>
    /\ _exchange_to_std = <<>>
    /\ provider \in [ProviderExchanges -> PairMappings(MaxParPairs)]
    /\ _exchange_info = <<>>
    /\ call = NoCall
    /\ ret = Return(PyNone)
    /\ logged = FALSE
    /\ warmed = {}
    /\ thr = << [exchange |-> BITFINEX, pc |-> "line32", mapping |-> <<>>],
                [exchange |-> POLONIEX, pc |-> "line32", mapping |-> <<>>] >>

\* The pair the thread's loop is at: the head of what is left of the mapping.
ParStd(t) == Head(thr[t].mapping)[1]

ParExch(t) == Head(thr[t].mapping)[2]

\* line 35: the next pair if there is one, else the call returns
ParLoop(mapping) == IF mapping = <<>> THEN "done" ELSE "line36"

\* lines 32-35
ParBegin(t) ==
    /\ thr[t].pc = "line32"
    /\ LET mapping == IF thr[t].exchange \in ExemptExchanges THEN <<>>
                       ELSE gen_pairs(provider, thr[t].exchange)
       IN thr' = [thr EXCEPT ![t].mapping = mapping, ![t].pc = ParLoop(mapping)]
    /\ UNCHANGED << _std_trading_pairs, _exchange_to_std, provider, _exchange_info,
                    call, ret, logged, warmed >>

\* line 36
ParLine36(t) ==
    /\ thr[t].pc = "line36"
    /\ _exchange_to_std' = exchange_to_std_store(_exchange_to_std, ParExch(t), ParStd(t))
    /\ thr' = [thr EXCEPT ![t].pc = "line37"]
    /\ UNCHANGED << _std_trading_pairs, provider, _exchange_info,
                    call, ret, logged, warmed >>

\* line 37
ParLine37(t) ==
    /\ thr[t].pc = "line37"
    /\ thr' = [thr EXCEPT ![t].pc = IF ParStd(t) \in DOMAIN _std_trading_pairs
                                    THEN "line38" ELSE "line40"]
    /\ UNCHANGED << _std_trading_pairs, _exchange_to_std, provider, _exchange_info,
                    call, ret, logged, warmed >>

\* line 38, then line 35
ParLine38(t) ==
    /\ thr[t].pc = "line38"
    /\ _std_trading_pairs' =
           std_trading_pairs_update(_std_trading_pairs, ParStd(t),
                                    thr[t].exchange, ParExch(t))
    /\ thr' = [thr EXCEPT ![t].mapping = Tail(@), ![t].pc = ParLoop(Tail(thr[t].mapping))]
    /\ UNCHANGED << _exchange_to_std, provider, _exchange_info,
                    call, ret, logged, warmed >>

\* line 40, then line 35
ParLine40(t) ==
    /\ thr[t].pc = "line40"
    /\ _std_trading_pairs' =
           std_trading_pairs_create(_std_trading_pairs, ParStd(t),
                                    thr[t].exchange, ParExch(t))
    /\ thr' = [thr EXCEPT ![t].mapping = Tail(@), ![t].pc = ParLoop(Tail(thr[t].mapping))]
    /\ UNCHANGED << _exchange_to_std, provider, _exchange_info,
                    call, ret, logged, warmed >>

NextPar ==
    \/ \E t \in DOMAIN thr : ParBegin(t)
    \/ \E t \in DOMAIN thr : ParLine36(t)
    \/ \E t \in DOMAIN thr : ParLine37(t)
    \/ \E t \in DOMAIN thr : ParLine38(t)
    \/ \E t \in DOMAIN thr : ParLine40(t)

SpecPar == InitPar /\ [][NextPar]_vars

ParDone == \A t \in DOMAIN thr : thr[t].pc = "done"

(***************************************************************************)
(* Properties of the symbol registry.                                      *)
(***************************************************************************)
\* The pairs the Pair Provider returned for exchange e.
ProvidedPairs(e) == { provider[e][i] : i \in DOMAIN provider[e] }

WarmedExchanges == warmed \ ExemptExchanges

\* C1: round trip.  For every warmed, non-exempt exchange e and every pair
\* (s, native) the Pair Provider returned for e, toStandard(native) returns s
\* and toExchange(s, e) returns native.
C1_RoundTrip ==
    \A e \in WarmedExchanges :
        \A p \in ProvidedPairs(e) :
            /\ pair_exchange_to_std(_exchange_to_std, p[2]) = Return(PyText(p[1]))
            /\ pair_std_to_exchange(_std_trading_pairs, p[1], e) = Return(PyText(p[2]))

\* C2: idempotence of warm.  When warm(e) is called twice in a row, the second
\* call leaves the forward map and the backward map as the first call left them.
C2_WarmIdempotent ==
    [][ ( /\ call.op = "load_exchange_pair_mapping"
          /\ call'.op = "load_exchange_pair_mapping"
          /\ call'.exchange = call.exchange )
        => ( /\ _std_trading_pairs' = _std_trading_pairs
             /\ _exchange_to_std' = _exchange_to_std ) ]_vars

\* warm(e) has just been called for the second time in a row, for an exchange
\* with pairs to load.
C2_Witness ==
    /\ call.op = "load_exchange_pair_mapping"
    /\ call.again
    /\ call.exchange \in ProviderExchanges
    /\ provider[call.exchange] # <<>>
    /\ _std_trading_pairs # <<>>

\* C3: concurrent warm calls for different exchanges are independent.  Whatever
\* the interleaving of the steps of warm(e1) and warm(e2), both maps end as
\* warm(e1) followed by warm(e2) leaves them, and as warm(e2) followed by
\* warm(e1) leaves them.
C3_ParIndependent ==
    ParDone =>
        LET e1 == thr[1].exchange
            e2 == thr[2].exchange
            seq12 == load_exchange_pair_mapping(
                         load_exchange_pair_mapping(EmptyRegistry, provider, e1),
                         provider, e2)
            seq21 == load_exchange_pair_mapping(
                         load_exchange_pair_mapping(EmptyRegistry, provider, e2),
                         provider, e1)
        IN /\ Registry = seq12
           /\ Registry = seq21

\* C4: toExchange(standard, exchange) follows this rule in every registry
\* state: an exempt exchange gets standard back unchanged; otherwise a standard
\* that is a key of the forward map gives that row's entry for the exchange, and
\* UnsupportedTradingPair when the row has none; a standard that is no key gives
\* the marker 'f' followed by standard when the exchange is BITFINEX and
\* standard has no separator, and UnsupportedTradingPair in every other case.
C4_ToExchangeRule ==
    call.op = "pair_std_to_exchange" =>
        LET s == call.pair
            e == call.exchange
            exempt == e \in {BITMEX, DERIBIT, KRAKEN_FUTURES}
            known == s \in DOMAIN _std_trading_pairs
            bare == \A i \in 1..Len(s) : s[i] # "-"
            funding == e = BITFINEX /\ bare
        IN /\ exempt => ret = Return(PyText(s))
           /\ (~exempt /\ known /\ e \in DOMAIN _std_trading_pairs[s])
                 => ret = Return(PyText(_std_trading_pairs[s][e]))
           /\ (~exempt /\ known /\ e \notin DOMAIN _std_trading_pairs[s])
                 => ret = Raise("UnsupportedTradingPair")
           /\ (~exempt /\ ~known /\ funding) => ret = Return(PyText(<<"f">> \o s))
           /\ (~exempt /\ ~known /\ ~funding) => ret = Raise("UnsupportedTradingPair")

\* toExchange was asked for a standard symbol that is mapped, but not on the
\* exchange asked about.
C4_Witness ==
    /\ call.op = "pair_std_to_exchange"
    /\ call.exchange = BITFINEX
    /\ call.pair \in DOMAIN _std_trading_pairs
    /\ BITFINEX \notin DOMAIN _std_trading_pairs[call.pair]
    /\ BITFINEX \in warmed
    /\ ret = Raise("UnsupportedTradingPair")

\* C5: toStandard never fails.  For every native symbol, the empty string
\* included, it returns the backward map's entry when native is a key, native
\* without the funding marker when native is no key and starts with the marker,
\* and null for every other native symbol.
C5_ToStandardTotal ==
    call.op = "pair_exchange_to_std" =>
        LET n == call.pair
            known == n \in DOMAIN _exchange_to_std
            marked == Len(n) > 0 /\ n[1] = "f"
        IN /\ ret.kind = "return"
           /\ known => ret = Return(PyText(_exchange_to_std[n]))
           /\ (~known /\ marked) => ret = Return(PyText(SubSeq(n, 2, Len(n))))
           /\ (~known /\ ~marked) => ret = Return(PyNone)

\* The native symbol the Pair Provider returned for standard s on exchange e.
ProvidedNative(e, s) == (CHOOSE p \in ProvidedPairs(e) : p[1] = s)[2]

\* (s, e) is a defined entry of the forward map.
Mapped(fwd, s, e) == s \in DOMAIN fwd /\ e \in DOMAIN fwd[s]

\* C7: no cross-contamination.  For non-exempt exchanges e1 # e2 and a standard
\* symbol s mapped on both, toExchange(s, e1) returns e1's native symbol and
\* toExchange(s, e2) returns e2's; and a warm(e2) step leaves every entry
\* forward[s][e1] as it was, defined or not: it writes only the e2 column.
C7_NoCrossContamination ==
    /\ [](\A e1 \in WarmedExchanges, e2 \in WarmedExchanges, s \in StdSymbols :
            (e1 # e2 /\ Mapped(_std_trading_pairs, s, e1)
                     /\ Mapped(_std_trading_pairs, s, e2))
            => /\ pair_std_to_exchange(_std_trading_pairs, s, e1)
                    = Return(PyText(ProvidedNative(e1, s)))
               /\ pair_std_to_exchange(_std_trading_pairs, s, e2)
                    = Return(PyText(ProvidedNative(e2, s))))
    /\ [][ call'.op = "load_exchange_pair_mapping"
           => \A s \in StdSymbols, e1 \in RegistryExchanges \ {call'.exchange} :
                  IF Mapped(_std_trading_pairs, s, e1)
                  THEN /\ Mapped(_std_trading_pairs', s, e1)
                       /\ _std_trading_pairs'[s][e1] = _std_trading_pairs[s][e1]
                  ELSE ~Mapped(_std_trading_pairs', s, e1) ]_vars

\* warm(POLONIEX) has just run after warm(BITFINEX), and a standard symbol is
\* mapped on both, to different native symbols.
C7_Witness ==
    /\ call.op = "load_exchange_pair_mapping"
    /\ call.exchange = POLONIEX
    /\ BITFINEX \in warmed
    /\ \E s \in StdSymbols :
           /\ Mapped(_std_trading_pairs, s, BITFINEX)
           /\ Mapped(_std_trading_pairs, s, POLONIEX)
           /\ _std_trading_pairs[s][BITFINEX] # _std_trading_pairs[s][POLONIEX]

\* C8: registry entries are never removed.  Across any sequence of calls, an
\* entry (s, e) of the forward map stays defined and a key of the backward map
\* stays a key.
C8_NeverRemoved ==
    [][ /\ \A s \in DOMAIN _std_trading_pairs :
               /\ s \in DOMAIN _std_trading_pairs'
               /\ DOMAIN _std_trading_pairs[s] \subseteq DOMAIN _std_trading_pairs'[s]
        /\ DOMAIN _exchange_to_std \subseteq DOMAIN _exchange_to_std' ]_vars

\* Both exchanges are warmed, the forward map has two rows, one of them with
\* two entries, and a warm-up has just run on that registry.
C8_Witness ==
    /\ call.op = "load_exchange_pair_mapping"
    /\ call.again
    /\ ProviderExchanges \subseteq warmed
    /\ Cardinality(DOMAIN _std_trading_pairs) >= 2
    /\ Cardinality(DOMAIN _exchange_to_std) >= 2
    /\ \E s \in DOMAIN _std_trading_pairs : DOMAIN _std_trading_pairs[s] = ProviderExchanges

(***************************************************************************)
(* Properties of the static tables.                                        *)
(***************************************************************************)
\* (channel, exchange) is an entry of the channel table.
HasChannelEntry(feed, exchange) ==
    InFeedMap(feed) /\ exchange \in DOMAIN _feed_to_exchange_map[feed]

\* C6: translate(channel, exchange, silent) returns the channel table's value
\* when the entry (channel, exchange) exists and is not UNSUPPORTED, and fails
\* with UnsupportedDataFeed when the entry is absent or is UNSUPPORTED; except
\* that POLONIEX with a channel that is no channel name is answered by
\* toExchange(channel, POLONIEX).  The outcome is the same for silent = true
\* and silent = false: silent never turns a failure into a return.
C6_TranslateRule ==
    call.op = "feed_to_exchange" =>
        LET e == call.exchange
            f == call.feed
            other == feed_to_exchange(_std_trading_pairs, e, f, ~call.silent)
        IN /\ IF e = POLONIEX /\ ~InFeedMap(f)
              THEN ret = pair_std_to_exchange(_std_trading_pairs, f, POLONIEX)
              ELSE IF HasChannelEntry(f, e)
                      /\ _feed_to_exchange_map[f][e] # PyStr(UNSUPPORTED)
              THEN ret = Return(_feed_to_exchange_map[f][e])
              ELSE ret = Raise("UnsupportedDataFeed")
           /\ ret = other.out
           /\ (f = TRADES /\ e = COINBASE) => ret = Return(PyStr("matches"))

\* A silent translate of a channel the exchange explicitly does not offer has
\* failed, without a log record.
C6_Witness ==
    /\ call.op = "feed_to_exchange"
    /\ call.silent
    /\ call.exchange = KRAKEN
    /\ call.feed = L3_BOOK
    /\ ret = Raise("UnsupportedDataFeed")
    /\ ~logged

\* C9: normalize_trading_options(exchange, option) fails with
\* UnsupportedTradingOption in exactly three cases -- option is no key of the
\* option table, exchange has no entry under option, the entry is UNSUPPORTED --
\* and returns the entry unchanged in every other case.  GEMINI/market fails,
\* KRAKEN/limit returns 'limit'.
C9_OptionRule ==
    call.op = "normalize_trading_options" =>
        LET e == call.exchange
            o == call.option
            fails == \/ o \notin DOMAIN _exchange_options
                     \/ e \notin DOMAIN _exchange_options[o]
                     \/ _exchange_options[o][e] = PyStr(UNSUPPORTED)
        IN /\ fails <=> ret = Raise("UnsupportedTradingOption")
           /\ ~fails => ret = Return(_exchange_options[o][e])
           /\ (e = GEMINI /\ o = MARKET) => ret = Raise("UnsupportedTradingOption")
           /\ (e = KRAKEN /\ o = LIMIT) => ret = Return(PyStr("limit"))

\* normalize_trading_options(GEMINI, MARKET) has failed on the sentinel.
C9_Witness ==
    /\ call.op = "normalize_trading_options"
    /\ call.exchange = GEMINI
    /\ call.option = MARKET
    /\ _exchange_options[MARKET][GEMINI] = PyStr(UNSUPPORTED)
    /\ ret = Raise("UnsupportedTradingOption")

\* x * 10^k
TimesPowerOfTen(x, k) == IF x.val[1] = 0 THEN x ELSE PyNum(x.val[1], x.val[2] + k)

\* The unit classes: parsed, milliseconds, microseconds, and pass-through for
\* every exchange with no entry.
UnitClasses(e) ==
    { c \in {"parsed", "millis", "micros", "none"} :
        \/ c = "parsed" /\ e \in TimestampParsed
        \/ c = "millis" /\ e \in TimestampMillis
        \/ c = "micros" /\ e \in TimestampMicros
        \/ c = "none" /\ e \notin TimestampParsed \cup TimestampMillis \cup TimestampMicros }

\* C10: the unit classes are pairwise disjoint, so every exchange is in exactly
\* one; for a millisecond exchange normalize(exchange, ts) is ts / 1000 (BINANCE
\* and 1_600_000_000_000 give 1_600_000_000), for a microsecond exchange it is
\* ts / 1_000_000, and for an exchange with no entry, an unknown one included, it
\* is ts unchanged.
C10_TimestampRule ==
    /\ TimestampParsed \cap TimestampMillis = {}
    /\ TimestampParsed \cap TimestampMicros = {}
    /\ TimestampMillis \cap TimestampMicros = {}
    /\ \A e \in AllExchanges : Cardinality(UnitClasses(e)) = 1
    /\ call.op = "timestamp_normalize" =>
           LET e == call.exchange
               ts == call.ts
           IN /\ (e \in TimestampMillis /\ ts.type = "number")
                    => /\ ret.kind = "return"
                       /\ TimesPowerOfTen(ret.value, 3) = ts
              /\ (e \in TimestampMicros /\ ts.type = "number")
                    => /\ ret.kind = "return"
                       /\ TimesPowerOfTen(ret.value, 6) = ts
              /\ UnitClasses(e) = {"none"} => ret = Return(ts)
              /\ (e = BINANCE /\ ts = PyNum(16, 11)) => ret = Return(PyNum(16, 8))

\* normalize(BINANCE, 1_600_000_000_000) has returned 1_600_000_000.
C10_Witness ==
    /\ call.op = "timestamp_normalize"
    /\ call.exchange = BINANCE
    /\ call.ts = PyNum(16, 11)
    /\ ret = Return(PyNum(16, 8))
====
